---- MODULE Spec2Model ----
(***************************************************************************)
(* Model of fdtd/sources.py: the line Source of an FDTD grid.              *)
(*                                                                         *)
(* Reals are fixed-point integers with Scale units per 1.0, plus the one   *)
(* special float the code can produce, NaN.  Angles are counted in         *)
(* twelfths of a turn (2*pi/12).                                           *)
(***************************************************************************)
EXTENDS Integers, Sequences, FiniteSets

VARIABLES
    grid,                 \* self.grid: "None" or "grid"
    period,               \* self.period (value)
    periodUnit,           \* "steps" (an int) or "seconds" (a float)
    power,                \* self.power, fixed-point
    phase_shift,          \* self.phase_shift, in twelfths of a turn
    p0, p1,               \* self.p0, self.p1
    x, y, z,              \* self.x, self.y, self.z
    profile,              \* self.profile
    attrs,                \* which of x, y, z, profile exist on the object
    E, H,                 \* grid.E, grid.H
    timesteps_passed,     \* grid.timesteps_passed
    inverse_permittivity, \* grid.inverse_permittivity[.., 2]
    last,                 \* the call made by the latest step
    err,                  \* the exception the latest call raised, or "none"
    regOutcome,           \* outcome of the latest register_grid: "never", "ok", "raised"
    updates,              \* number of update_E calls that wrote the field
    otherWrites           \* number of writes by other parts of the grid

vars == <<grid, period, periodUnit, power, phase_shift, p0, p1, x, y, z,
          profile, attrs, E, H, timesteps_passed, inverse_permittivity,
          last, err, regOutcome, updates, otherWrites>>

----------------------------------------------------------------------------
(* Bounds *)

Nx == 4
Ny == 2
Nz == 2
MaxSteps == 2
MaxUpdates == 2
MaxOtherWrites == 1

----------------------------------------------------------------------------
(* Numbers *)

Scale == 1000

NaN == -999999999

EZ == 2

Abs(a) == IF a < 0 THEN -a ELSE a

Max2(a, b) == IF a >= b THEN a ELSE b

Max3(a, b, c) == Max2(a, Max2(b, c))

Min2(a, b) == IF a <= b THEN a ELSE b

\* conversion of a float to int: the fraction a/b, b > 0, truncated toward zero
Trunc(a, b) == IF a >= 0 THEN a \div b ELSE -((-a) \div b)

\* a/b for any sign of b
TruncDiv(a, b) == IF b > 0 THEN Trunc(a, b) ELSE Trunc(-a, -b)

FAdd(a, b) == IF a = NaN \/ b = NaN THEN NaN ELSE a + b

FMul(a, b) == IF a = NaN \/ b = NaN THEN NaN ELSE Trunc(a * b, Scale)

\* a / b; the only zero divisor the code can meet is 0.0 / 0.0
FDiv(a, b) == IF a = NaN \/ b = NaN \/ b = 0 THEN NaN ELSE TruncDiv(a * Scale, b)

RECURSIVE SqrtSearch(_, _, _)
SqrtSearch(n, lo, hi) ==
    IF lo >= hi THEN lo
    ELSE LET mid == (lo + hi + 1) \div 2
         IN  IF mid * mid <= n THEN SqrtSearch(n, mid, hi)
                               ELSE SqrtSearch(n, lo, mid - 1)

\* v ** 0.5 on a float array: nan for a negative entry
FSqrt(v) == IF v = NaN \/ v < 0 THEN NaN ELSE SqrtSearch(v * Scale, 0, v + Scale)

RECURSIVE ExpTerm(_, _)
ExpTerm(t, k) == IF k = 0 THEN Scale ELSE (ExpTerm(t, k - 1) * t) \div (k * Scale)

RECURSIVE ExpSeries(_, _)
ExpSeries(t, k) == IF k = 0 THEN ExpTerm(t, 0) ELSE ExpSeries(t, k - 1) + ExpTerm(t, k)

\* exp(a) for a <= 0
FExp(a) == IF a = NaN THEN NaN ELSE (Scale * Scale) \div ExpSeries(-a, 12)

\* sin of k twelfths of a turn
Sin12(k) ==
    LET r == k % 12
        h == r % 6
        v == IF h = 0 THEN 0
             ELSE IF h \in {1, 5} THEN 500
             ELSE IF h \in {2, 4} THEN 866
             ELSE 1000
    IN  IF r < 6 THEN v ELSE -v

RECURSIVE SeqSum(_, _)
SeqSum(s, n) == IF n = 0 THEN 0 ELSE FAdd(SeqSum(s, n - 1), s[n])

RECURSIVE SeqMax(_, _)
SeqMax(s, n) == IF n = 1 THEN s[1] ELSE Max2(SeqMax(s, n - 1), s[n])

----------------------------------------------------------------------------
(* The host grid *)

TimeStep == 2

Cells == (0 .. Nx - 1) \X (0 .. Ny - 1) \X (0 .. Nz - 1)

FieldIndex == {<<c[1], c[2], c[3], k>> : c \in Cells, k \in 0 .. 2}

ZeroField == [f \in FieldIndex |-> 0]

\* inverse permittivity 1.0 everywhere
Vacuum == [c \in Cells |-> Scale]

\* a vacuum grid, and one with a denser material in every second x-plane
Permittivities ==
    { Vacuum,
      [c \in Cells |-> IF c[1] % 2 = 0 THEN Scale ELSE Scale \div 4] }

Uniform(ip) == \A c, d \in Cells : ip[c] = ip[d]

\* grid._handle_time: a period in timesteps is kept, one in seconds
\* (counted in ticks, TimeStep ticks per timestep) becomes timesteps
_handle_time(unit, v) == IF unit = "steps" THEN v ELSE v \div TimeStep

\* the extent of the grid: its cells and its far faces
InExtent(p) == p[1] \in 0 .. Nx /\ p[2] \in 0 .. Ny /\ p[3] \in 0 .. Nz

\* grid._handle_tuple: the grid indices of a point, or a bounds error for a
\* point outside the extent of the grid
_handle_tuple(p) == [ok |-> InExtent(p), val |-> p]

\* indexing a grid array at [xs, ys, zs, 2] succeeds
Indexable(xs, ys, zs) == \A i \in 1 .. Len(xs) : <<xs[i], ys[i], zs[i]>> \in Cells

----------------------------------------------------------------------------
(* Source._get_location *)

\* a / b rounded to the nearest integer instead of truncated
ToIntRound(a, b) == (2 * a + b) \div (2 * b)

\* bd.array(., bd.int) of the float a / b, b > 0
ToInt(a, b) == IF a >= 0 THEN a \div b ELSE -((-a) \div b)

\* bd.array(bd.linspace(a0, a1, m, endpoint=False), bd.int):
\* sample i is a0 + i * (a1 - a0) / m
LinspaceInt(a0, a1, m) == [i \in 1 .. m |-> ToInt(a0 * m + (i - 1) * (a1 - a0), m)]

MaxSpan(q0, q1) == Max3(Abs(q1[1] - q0[1]), Abs(q1[2] - q0[2]), Abs(q1[3] - q0[3]))

\* a line of zero span taken as a single point
GetLocationAtLeastOne(q0, q1) ==
    LET m == Max2(MaxSpan(q0, q1), 1)
    IN  [x |-> LinspaceInt(q0[1], q1[1], m),
         y |-> LinspaceInt(q0[2], q1[2], m),
         z |-> LinspaceInt(q0[3], q1[3], m)]

\* the line with its end point included: one sample more
GetLocationClosed(q0, q1) ==
    LET m == MaxSpan(q0, q1) + 1
    IN  [x |-> LinspaceInt(q0[1], q1[1], m),
         y |-> LinspaceInt(q0[2], q1[2], m),
         z |-> LinspaceInt(q0[3], q1[3], m)]

_get_location(q0, q1) ==
    LET m == MaxSpan(q0, q1)
    IN  [x |-> LinspaceInt(q0[1], q1[1], m),
         y |-> LinspaceInt(q0[2], q1[2], m),
         z |-> LinspaceInt(q0[3], q1[3], m)]

----------------------------------------------------------------------------
(* Source.register_grid: the profile *)

\* the centre index rounded up instead of down
CenterUp(L) == (L + 1) \div 2

\* the index of the point the distances are measured from
Center(L) == L \div 2

\* self.vect: squared index-space distance of every point to the centre point
Vect(xs, ys, zs) ==
    LET L == Len(xs)
        c == Center(L) + 1
    IN  [i \in 1 .. L |-> (xs[i] - xs[c]) * (xs[i] - xs[c])
                          + (ys[i] - ys[c]) * (ys[i] - ys[c])
                          + (zs[i] - zs[c]) * (zs[i] - zs[c])]

\* (power * inverse_permittivity[x, y, z, 2]) ** 0.5
Amplitude(xs, ys, zs, pw, ip) ==
    [i \in 1 .. Len(xs) |-> FSqrt(FMul(pw, ip[<<xs[i], ys[i], zs[i]>>]))]

\* exp(-vect ** 2 / (2 * (0.5 * vect.max()) ** 2))
Gauss(vect) ==
    LET L  == Len(vect)
        mx == SeqMax(vect, L)
    IN  [i \in 1 .. L |->
            FExp(FDiv(-(vect[i] * vect[i]) * Scale, (mx * mx * Scale) \div 2))]

\* a profile that is one entry longer than the line
ProfileExtra(xs, ys, zs, pw, ip) ==
    LET L   == Len(xs)
        w   == Gauss(Vect(xs, ys, zs))
        s   == SeqSum(w, L)
        amp == Amplitude(xs, ys, zs, pw, ip)
    IN  [i \in 1 .. L + 1 |-> IF i <= L THEN FMul(FDiv(w[i], s), amp[i]) ELSE 0]

\* profile = gauss; profile /= profile.sum(); profile *= amplitude
Profile(xs, ys, zs, pw, ip) ==
    LET L   == Len(xs)
        w   == Gauss(Vect(xs, ys, zs))
        s   == SeqSum(w, L)
        amp == Amplitude(xs, ys, zs, pw, ip)
    IN  [i \in 1 .. L |-> FMul(FDiv(w[i], s), amp[i])]

----------------------------------------------------------------------------
(* Source.update_E: the injection *)

\* sin(2 * pi * q / period + phase_shift), period # 0
Waveform(q, per, ph) == Sin12(TruncDiv(12 * q, per) + ph)

\* self.profile * sin(..)
Injected(prof, q, per, ph) ==
    [i \in 1 .. Len(prof) |-> FMul(prof[i], Waveform(q, per, ph))]

\* grid.E[x, y, z, 2] = value: the disabled assignment
AssignTo(F, cx, cy, cz, value) ==
    [F EXCEPT ![<<cx, cy, cz, EZ>>] = value]

\* grid.E[x, y, z, 2] += value
AddTo(F, cx, cy, cz, value) ==
    [F EXCEPT ![<<cx, cy, cz, EZ>>] = FAdd(@, value)]

\* for x, y, z, value in zip(self.x, self.y, self.z, vect): ...
RECURSIVE Inject(_, _, _, _, _, _)
Inject(F, xs, ys, zs, vect, n) ==
    IF n = 0 THEN F
    ELSE AddTo(Inject(F, xs, ys, zs, vect, n - 1), xs[n], ys[n], zs[n], vect[n])

ZipLen(xs, ys, zs, vect) == Min2(Min2(Len(xs), Len(ys)), Min2(Len(zs), Len(vect)))

----------------------------------------------------------------------------
(* Inputs *)

\* points given in grid indices; x = Nx + 1 lies outside the grid
InputPoints == (0 .. Nx + 1) \X (0 .. Ny) \X (0 .. Nz)

\* the end points of the lines from the origin along the bottom of the grid
EndPoints == {p \in InputPoints : p[3] = 0}

\* the corner of the grid
Origin == <<0, 0, 0>>

\* <<unit, value>>: timesteps, or ticks of physical time
PeriodInputs == {<<"steps", 4>>, <<"steps", 0>>, <<"steps", -4>>, <<"seconds", 6>>}

PowerInputs == {Scale, 0, -Scale}

\* 0 and pi/2
PhaseInputs == {0, 3}

\* the excitations: period 4, power 1.0, phase 0, and each of the three varied
SourceInputs ==
    {[per |-> pi, pw |-> Scale, ph |-> 0] : pi \in PeriodInputs}
    \cup {[per |-> <<"steps", 4>>, pw |-> w, ph |-> 0] : w \in PowerInputs}
    \cup {[per |-> <<"steps", 4>>, pw |-> Scale, ph |-> f] : f \in PhaseInputs}

----------------------------------------------------------------------------
(* Source.__init__ and the fresh grid *)

Constructed ==
    /\ grid = "None"
    /\ x = <<>> /\ y = <<>> /\ z = <<>> /\ profile = <<>>
    /\ attrs = {}
    /\ E = ZeroField /\ H = ZeroField
    /\ timesteps_passed = 0
    /\ last = "__init__" /\ err = "none" /\ regOutcome = "never"
    /\ updates = 0 /\ otherWrites = 0

Init ==
    /\ Constructed
    /\ p0 = Origin /\ p1 \in EndPoints
    /\ \E s \in SourceInputs :
          /\ periodUnit = s.per[1] /\ period = s.per[2]
          /\ power = s.pw
          /\ phase_shift = s.ph
    /\ inverse_permittivity = Vacuum

\* every line of the grid, in either medium, at every power
InitLine ==
    /\ Constructed
    /\ p0 \in InputPoints /\ p1 \in InputPoints
    /\ periodUnit = "steps" /\ period = 4
    /\ power \in PowerInputs
    /\ phase_shift = 0
    /\ inverse_permittivity \in Permittivities

----------------------------------------------------------------------------
(* Source.register_grid *)

register_grid ==
    LET per == _handle_time(periodUnit, period)
        r0  == _handle_tuple(p0)
        r1  == _handle_tuple(p1)
        loc == _get_location(r0.val, r1.val)
        L   == Len(loc.x)
    IN  /\ last' = "register_grid"
        /\ grid' = "grid"
        /\ period' = per
        /\ periodUnit' = "steps"
        /\ UNCHANGED <<power, phase_shift, E, H, timesteps_passed,
                       inverse_permittivity, updates, otherWrites>>
        /\ IF ~r0.ok \/ ~r1.ok
           THEN \* the grid rejects a point outside it
                /\ err' = "BoundsError"
                /\ regOutcome' = "raised"
                /\ UNCHANGED <<p0, p1, x, y, z, profile, attrs>>
           ELSE /\ p0' = r0.val
                /\ p1' = r1.val
                /\ x' = loc.x /\ y' = loc.y /\ z' = loc.z
                /\ IF ~Indexable(loc.x, loc.y, loc.z) \/ Center(L) + 1 > L
                   THEN \* a point of the line outside the arrays of the
                        \* grid, or self.x[L // 2] of an empty array
                        /\ err' = "IndexError"
                        /\ regOutcome' = "raised"
                        /\ attrs' = attrs \cup {"x", "y", "z"}
                        /\ UNCHANGED profile
                   ELSE /\ profile' = Profile(loc.x, loc.y, loc.z, power,
                                              inverse_permittivity)
                        /\ attrs' = attrs \cup {"x", "y", "z", "profile"}
                        /\ err' = "none"
                        /\ regOutcome' = "ok"

----------------------------------------------------------------------------
(* Source.update_E *)

\* update_E scaling self.profile in place (self.profile *= sin(..))
update_E_inplace ==
    /\ last' = "update_E"
    /\ UNCHANGED <<grid, period, periodUnit, power, phase_shift, p0, p1,
                   x, y, z, attrs, H, timesteps_passed,
                   inverse_permittivity, regOutcome, otherWrites>>
    /\ IF grid = "None" \/ "profile" \notin attrs
       THEN /\ err' = "AttributeError"
            /\ UNCHANGED <<E, updates, profile>>
       ELSE IF period = 0
       THEN /\ err' = "ZeroDivisionError"
            /\ UNCHANGED <<E, updates, profile>>
       ELSE LET q    == timesteps_passed
                vect == Injected(profile, q, period, phase_shift)
            IN  /\ updates < MaxUpdates
                /\ profile' = vect
                /\ E' = Inject(E, x, y, z, vect, ZipLen(x, y, z, vect))
                /\ updates' = updates + 1
                /\ err' = "none"

update_E ==
    /\ last' = "update_E"
    /\ UNCHANGED <<grid, period, periodUnit, power, phase_shift, p0, p1,
                   x, y, z, profile, attrs, H, timesteps_passed,
                   inverse_permittivity, regOutcome, otherWrites>>
    /\ IF grid = "None" \/ "profile" \notin attrs
       THEN \* None has no timesteps_passed; the source has no profile
            /\ err' = "AttributeError"
            /\ UNCHANGED <<E, updates>>
       ELSE IF period = 0
       THEN /\ err' = "ZeroDivisionError"
            /\ UNCHANGED <<E, updates>>
       ELSE LET q    == timesteps_passed
                vect == Injected(profile, q, period, phase_shift)
            IN  /\ updates < MaxUpdates
                /\ E' = Inject(E, x, y, z, vect, ZipLen(x, y, z, vect))
                /\ updates' = updates + 1
                /\ err' = "none"

----------------------------------------------------------------------------
(* Source.update_H *)

\* update_H adding the profile to the magnetic field
update_H_writes ==
    /\ last' = "update_H"
    /\ err' = "none"
    /\ H' = IF "profile" \in attrs
            THEN Inject(H, x, y, z, profile, ZipLen(x, y, z, profile))
            ELSE H
    /\ UNCHANGED <<grid, period, periodUnit, power, phase_shift, p0, p1,
                   x, y, z, profile, attrs, E, timesteps_passed,
                   inverse_permittivity, regOutcome, updates, otherWrites>>

update_H ==
    /\ last' = "update_H"
    /\ err' = "none"
    /\ UNCHANGED <<grid, period, periodUnit, power, phase_shift, p0, p1,
                   x, y, z, profile, attrs, E, H, timesteps_passed,
                   inverse_permittivity, regOutcome, updates, otherWrites>>

----------------------------------------------------------------------------
(* The rest of the grid *)

\* the grid finishes a timestep
grid_step ==
    /\ timesteps_passed < MaxSteps
    /\ timesteps_passed' = timesteps_passed + 1
    /\ last' = "grid_step"
    /\ err' = "none"
    /\ UNCHANGED <<grid, period, periodUnit, power, phase_shift, p0, p1,
                   x, y, z, profile, attrs, E, H, inverse_permittivity,
                   regOutcome, updates, otherWrites>>

\* another source adds 1.0 to the field at the corner of the grid
other_write ==
    /\ otherWrites < MaxOtherWrites
    /\ E' = AddTo(E, Origin[1], Origin[2], Origin[3], Scale)
    /\ otherWrites' = otherWrites + 1
    /\ last' = "other_write"
    /\ err' = "none"
    /\ UNCHANGED <<grid, period, periodUnit, power, phase_shift, p0, p1,
                   x, y, z, profile, attrs, H, timesteps_passed,
                   inverse_permittivity, regOutcome, updates>>

----------------------------------------------------------------------------

Next == register_grid \/ update_E \/ update_H \/ grid_step \/ other_write

Spec == Init /\ [][Next]_vars

NextLine == register_grid

SpecLine == InitLine /\ [][NextLine]_vars

----------------------------------------------------------------------------
(* Properties of the registered line (SpecLine) *)

Registered == regOutcome = "ok"

\* C2: after a successful register_grid the lists x, y, z and the profile
\* all have the length L = max(|x1-x0|, |y1-y0|, |z1-z0|), and L >= 1;
\* every line of nonzero span that stays inside the arrays registers.
C2_LengthIsMaxSpan ==
    LET dx == Abs(p1[1] - p0[1])
        dy == Abs(p1[2] - p0[2])
        dz == Abs(p1[3] - p0[3])
        L  == Len(x)
    IN  /\ Registered =>
              /\ Len(y) = L /\ Len(z) = L /\ Len(profile) = L
              /\ L >= 1
              /\ L >= dx /\ L >= dy /\ L >= dz
              /\ L \in {dx, dy, dz}
        /\ (last = "register_grid" /\ err = "IndexError" /\ p0 # p1) =>
              \E i \in 1 .. L : <<x[i], y[i], z[i]>> \notin Cells

C2_Witness ==
    /\ Registered /\ last = "register_grid"
    /\ Len(x) = 3 /\ Len(profile) = 3
    /\ p1[2] # p0[2] /\ p1[3] # p0[3]

\* c is the floor of a0 + i * (a1 - a0) / L
IsFloor(c, a0, a1, i, L) ==
    /\ c * L <= a0 * L + i * (a1 - a0)
    /\ a0 * L + i * (a1 - a0) < (c + 1) * L

\* c is the ceiling of a0 + i * (a1 - a0) / L
IsCeiling(c, a0, a1, i, L) ==
    /\ (c - 1) * L < a0 * L + i * (a1 - a0)
    /\ a0 * L + i * (a1 - a0) <= c * L

\* c is a0 + i * (a1 - a0) / L truncated toward a0
IsTowardStart(c, a0, a1, i, L) ==
    IF a1 >= a0 THEN IsFloor(c, a0, a1, i, L) ELSE IsCeiling(c, a0, a1, i, L)

FirstIsStart == <<x[1], y[1], z[1]>> = p0

EndExcluded == \A i \in 1 .. Len(x) : <<x[i], y[i], z[i]>> # p1

Scenario ==
    (p0 = <<0, 0, 0>> /\ p1 = <<4, 0, 0>>) =>
        /\ x = <<0, 1, 2, 3>> /\ y = <<0, 0, 0, 0>> /\ z = <<0, 0, 0, 0>>

Symmetric == \A i \in 1 .. Len(profile) : profile[i] = profile[Len(profile) + 1 - i]

\* every axis either constant or stepping by one cell per point
Straight ==
    \A a \in 1 .. 3 : Abs(p1[a] - p0[a]) \in {0, Len(x)}

\* C7 as claimed: with the same inverse permittivity at every cell, for
\* every line length L >= 2, odd or even, profile[i] = profile[L-1-i].
C7_SymmetricAnyLength ==
    (Registered /\ Uniform(inverse_permittivity) /\ Len(x) >= 2) => Symmetric

\* C7 amended: with the same inverse permittivity at every cell,
\* profile[i] and profile[L-1-i] are the same float for every i when L >= 2
\* is odd and the line is straight (every axis constant or stepping one
\* cell per point).
C7_SymmetricOddStraight ==
    (Registered /\ Uniform(inverse_permittivity) /\ Len(x) >= 2 /\ Straight
       /\ Len(x) % 2 = 1) => Symmetric

C7_Witness ==
    /\ Registered /\ Uniform(inverse_permittivity) /\ Straight
    /\ Len(x) = 3 /\ Symmetric
    /\ profile[1] # profile[2] /\ profile[1] > 0

\* C4: register_grid on equal endpoints ends in an error raised during the
\* registration and never leaves a populated coordinate list or a profile.
C4_DegenerateRaises ==
    (p0 = p1 /\ regOutcome # "never") =>
        /\ regOutcome = "raised"
        /\ "profile" \notin attrs /\ profile = <<>>
        /\ x = <<>> /\ y = <<>> /\ z = <<>>
        /\ last = "register_grid" => err \in {"IndexError", "BoundsError"}

C4_Witness ==
    /\ p0 = p1 /\ last = "register_grid" /\ err = "IndexError"
    /\ attrs = {"x", "y", "z"} /\ x = <<>>

----------------------------------------------------------------------------
(* Properties of the calls (Spec) *)

LineIndex(i) == <<x[i], y[i], z[i], EZ>>

OnLine(f) == \E i \in 1 .. Len(x) : f = LineIndex(i)

\* C1: one update_E of a registered source at timestep count q adds
\* profile_i * sin(2*pi*q/period + phase_shift) to E[x_i, y_i, z_i, 2] for
\* every i, and leaves every other entry of E and the timestep counter
\* unchanged; with period 0 the call raises and changes no entry.
C1_InjectionAccumulates ==
    [][(Registered /\ last' = "update_E") =>
          /\ timesteps_passed' = timesteps_passed
          /\ IF period = 0
             THEN E' = E /\ err' = "ZeroDivisionError"
             ELSE /\ \A i \in 1 .. Len(profile) :
                        E'[LineIndex(i)] =
                            FAdd(E[LineIndex(i)],
                                 FMul(profile[i],
                                      Sin12(TruncDiv(12 * timesteps_passed, period)
                                            + phase_shift)))
                  /\ \A f \in FieldIndex : ~OnLine(f) => E'[f] = E[f]]_vars

\* an injection on top of the write of another source
C1_Witness ==
    /\ Registered /\ last = "update_E" /\ err = "none"
    /\ otherWrites = 1 /\ Len(x) >= 2
    /\ E[<<0, 0, 0, EZ>>] \notin {0, Scale, NaN}
    /\ E[LineIndex(2)] # 0

\* C5: a registered line of one point has the profile
\* sqrt(power * inverse_permittivity) at its cell, not NaN.
C5_SinglePointGuarded ==
    (Registered /\ Len(x) = 1 /\ power >= 0) =>
        /\ profile[1] # NaN
        /\ profile[1] = FSqrt(FMul(power, inverse_permittivity[<<x[1], y[1], z[1]>>]))

\* C6: a registered source has period > 0 and power > 0, and no update_E
\* runs with period 0.
C6_RejectsNonPositive ==
    /\ Registered => (period > 0 /\ power > 0)
    /\ err # "ZeroDivisionError"

C9_ImmutableAfterRegistration ==
    [][Registered =>
          UNCHANGED <<x, y, z, profile, period, power, phase_shift>>]_vars

C9_Witness ==
    /\ Registered /\ last = "update_E" /\ err = "none"
    /\ updates >= 2 /\ otherWrites >= 1 /\ timesteps_passed >= 1
    /\ \E i \in 1 .. Len(profile) : profile[i] > 0 /\ E[LineIndex(i)] # 0

\* C10: an update_E that changes an entry of E is made by a source whose
\* register_grid completed with x, y, z and profile populated and of equal
\* length; after a register_grid that raised, update_E changes no entry.
C10_AllOrNothing ==
    [][last' = "update_E" =>
          /\ E' # E =>
                /\ Registered
                /\ {"x", "y", "z", "profile"} \subseteq attrs
                /\ Len(x) >= 1
                /\ Len(y) = Len(x) /\ Len(z) = Len(x) /\ Len(profile) = Len(x)
          /\ regOutcome = "raised" => (E' = E /\ err' # "none")]_vars

\* update_E on the source left by a registration that raised partway
C10_Witness ==
    /\ regOutcome = "raised" /\ attrs = {"x", "y", "z"}
    /\ last = "update_E" /\ err = "AttributeError"

====
